---- MODULE Spec2Model ----
(***************************************************************************)
(* Recipe finder: the Laravel API (favorites, recipe reconciliation, users)*)
(* and the Vue client (session store, route guard).                        *)
(*                                                                         *)
(* Each server request handler is a process that runs one database         *)
(* statement per step, so that handlers interleave between statements as   *)
(* PHP workers do.  Each subsystem has its own specification; the          *)
(* variables of the other subsystems then keep their initial values.       *)
(***************************************************************************)
EXTENDS Integers, Sequences, FiniteSets, TLC

VARIABLES
    favorites,      \* the favorites table: rows [id, user_id, recipe_id]
    nextFavId,      \* its auto-increment counter
    fh,             \* the favorites request handlers (one PHP worker each)
    resp,           \* the last response a favorites handler sent
    lastWrite,      \* per (user, recipe): the last add/remove answered with success
    recipes,        \* the recipes table: rows [id, spoonacular_id, title]
    nextRecipeId,   \* its auto-increment counter
    rh,             \* the GET /recipe request handlers
    rresp,          \* the response a GET /recipe handler sent in the last step
    logged_user,    \* auth store: the signed-in user, or Null
    token,          \* auth store: the bearer token, or Null
    sessionStorage, \* the tab's storage: the entries "user" and "token"
    currentRoute,   \* router: the path of the route displayed
    pending,        \* router: the navigation in progress
    loginCall,      \* loginUser: where the action is
    logoutCall,     \* logoutUser: where the action is
    notif,          \* notification store: message and fade-out timer
    ev,             \* what the client's last step did
    users,          \* the users table: rows [id, name, email, password]
    nextUserId,     \* its auto-increment counter
    uh,             \* the handlers of register and profile update requests
    uresp,          \* the response such a handler sent in the last step
    tokens,         \* the personal_access_tokens table: rows [id, user]
    nextTokenId,    \* its auto-increment counter
    search,         \* recipe store: the term in the search field
    debounceTimer,  \* search bar: the timer debounceTimer holds and the timers pending
    storeRecipes,   \* recipe store: recipes, the results displayed
    error,          \* recipe store: error
    loading,        \* recipe store: loading
    fetchCalls,     \* the fetchRecipes calls waiting for their response
    issued,         \* the number of fetchRecipes calls made
    latest,         \* the response of the call made last, once it is there
    dishTypes,      \* the dish_types table: rows [id, name]
    nextDishTypeId, \* its auto-increment counter
    ingredients,    \* the ingredients table: rows [id, spoonacular_id, name]
    nextIngredientId, \* its auto-increment counter
    recipeDishType, \* the recipe_dish_type table: rows [recipe_id, dish_type_id]
    recipeIngredient, \* the recipe_ingredient table: rows [recipe_id, ingredient_id]
    ah,             \* the handlers that attach dish types and ingredients
    storeCall,      \* signupUser and the saved-recipe actions: the one in flight
    savedRecipes,   \* recipe store: savedRecipes
    svc             \* the service call in progress, or the one that returned last

favVars == <<favorites, nextFavId, fh, resp, lastWrite>>
recipeVars == <<nextRecipeId, rh, rresp>>
clientVars == <<logged_user, token, sessionStorage, currentRoute, pending,
                loginCall, logoutCall, notif, ev>>
userVars == <<users, nextUserId, uh, uresp, tokens, nextTokenId>>
storeVars == <<search, debounceTimer, storeRecipes, error, loading,
               fetchCalls, issued, latest>>
attachVars == <<dishTypes, nextDishTypeId, ingredients, nextIngredientId,
                recipeDishType, recipeIngredient, ah>>
actionVars == <<storeCall, savedRecipes>>
serviceVars == <<svc>>
vars == <<favorites, nextFavId, fh, resp, lastWrite, recipes, nextRecipeId, rh,
          rresp, logged_user, token, sessionStorage, currentRoute, pending,
          loginCall, logoutCall, notif, ev, users, nextUserId, uh, uresp,
          tokens, nextTokenId, search, debounceTimer, storeRecipes, error, loading, fetchCalls,
          issued, latest, dishTypes, nextDishTypeId, ingredients,
          nextIngredientId, recipeDishType, recipeIngredient, ah, storeCall,
          savedRecipes, svc>>

(***************************************************************************)
(* Bounds of the model.                                                    *)
(***************************************************************************)
NumFavHandlers == 2
MaxFavId == 2

\* The authenticated users: two accounts, A = 1 and B = 2.
UserIds == {1, 2}
FavHandlers == 1..NumFavHandlers

(***************************************************************************)
(* The recipes table as the favorites handlers find it: two recipes have   *)
(* been persisted by earlier searches.  Recipe id 3 does not exist.        *)
(***************************************************************************)
SeedRecipes ==
    { [id |-> 1, spoonacular_id |-> 11, title |-> <<"a", "b">>,
       summary |-> <<"0">>, created_at |-> 1],
      [id |-> 2, spoonacular_id |-> 12, title |-> <<"b">>,
       summary |-> <<"a">>, created_at |-> 2] }

RequestRecipeIds == {1, 3}

\* The recipe ids of the requests whose answers are lists.
ListRecipeIds == {1, 2}

\* Rule 'exists:recipes,id' of the three validators.
RecipeExists(rid) == \E r \in recipes : r.id = rid

(***************************************************************************)
(* PHP and SQL operators the handlers share                                *)
(***************************************************************************)
\* PHP truthiness of a string: null, "" and "0" are false.
Truthy(q) == q # <<>> /\ q # <<"0">>

\* ASCII case folding of the database's LIKE.
Lower(c) ==
    CASE c = "A" -> "a"
      [] c = "B" -> "b"
      [] OTHER -> c

RECURSIVE LikeMatch(_, _)
\* SQL LIKE: % matches any run of characters, _ exactly one, any other
\* character itself without regard to case.
LikeMatch(pat, txt) ==
    IF pat = <<>> THEN txt = <<>>
    ELSE IF Head(pat) = "%"
         THEN \/ LikeMatch(Tail(pat), txt)
              \/ (txt # <<>> /\ LikeMatch(pat, Tail(txt)))
    ELSE IF txt = <<>> THEN FALSE
    ELSE /\ (Head(pat) = "_" \/ Lower(Head(pat)) = Lower(Head(txt)))
         /\ LikeMatch(Tail(pat), Tail(txt))

\* where('title', 'like', "%{$query}%")
TitleLike(q, title) == LikeMatch(<<"%">> \o q \o <<"%">>, title)

(***************************************************************************)
(* Favorites: queries                                                      *)
(***************************************************************************)
\* A query that forgets the user filter.
FavoriteRowsAnyUser(u, rid) == { f \in favorites : f.recipe_id = rid }

\* Favorite::where('user_id', $userId)->where('recipe_id', $recipeId)
FavoriteRows(u, rid) ==
    { f \in favorites : f.user_id = u /\ f.recipe_id = rid }

\* ->first(): the id of the row found, 0 for null.  Without ORDER BY the
\* database may return any of the matching rows.
FirstIds(u, rid) ==
    IF FavoriteRows(u, rid) = {} THEN {0}
    ELSE { f.id : f \in FavoriteRows(u, rid) }

\* ->exists()
FavoriteExists(u, rid) == FavoriteRows(u, rid) # {}

\* Recipe::whereHas('favorites', user_id = $userId): the recipe ids listed.
FavoriteRecipeIds(u) ==
    { r.id : r \in { x \in recipes : FavoriteRows(u, x.id) # {} } }

\* The schema of the favorites table (its migration is not among the source
\* files): a plain join table; duplicates are prevented by the handler's
\* existence check only.
FavoritesUniqueIndex == FALSE

IdleFav == [pc |-> "idle", user |-> 0, recipe_id |-> 0, found |-> 0]

\* The web server hands a new request to a free worker; the workers are
\* interchangeable, so it is the first free one.
Accepts(h) ==
    /\ fh[h].pc = "idle"
    /\ \A g \in FavHandlers : g < h => fh[g].pc # "idle"

\* The JSON answer of a handler (status, and the fields the four methods set).
\* seen is the last successful write of (user, recipe_id) at the time of the
\* answer.
NoResponse ==
    [op |-> "none", user |-> 0, recipe_id |-> 0, status |-> 0,
     is_favorited |-> FALSE, data |-> {}, seen |-> "none", list |-> <<>>,
     search |-> <<>>, sort_by_name |-> "absent"]

Response(op, u, rid, status) ==
    [NoResponse EXCEPT !.op = op, !.user = u, !.recipe_id = rid,
                       !.status = status,
                       !.seen = IF rid \in DOMAIN lastWrite[u]
                                THEN lastWrite[u][rid] ELSE "none"]

\* A store that creates the row whether or not one exists.
StoreBranchNoCheck(existing) == "create"

\* if ($existingFavorite) return 409; otherwise go on to Favorite::create
StoreBranch(existing) == IF existing # 0 THEN "conflict" ELSE "create"

(***************************************************************************)
(* FavoriteController::store                                               *)
(***************************************************************************)
\* validate, then the existence check
Store_Check(h, u, rid) ==
    /\ Accepts(h)
    /\ IF ~RecipeExists(rid)
       THEN /\ resp' = Response("store", u, rid, 422)
            /\ fh' = fh
       ELSE \E e \in FirstIds(u, rid) :
              IF StoreBranch(e) = "conflict"
              THEN /\ resp' = Response("store", u, rid, 409)
                   /\ fh' = fh
              ELSE /\ fh' = [fh EXCEPT ![h] = [pc |-> "create", user |-> u,
                                              recipe_id |-> rid, found |-> e]]
                   /\ resp' = resp
    /\ UNCHANGED <<favorites, nextFavId, lastWrite, recipes>>

\* Favorite::create; a unique-index violation would be caught as Throwable
Store_Create(h) ==
    /\ fh[h].pc = "create"
    /\ nextFavId <= MaxFavId
    /\ LET u == fh[h].user
           rid == fh[h].recipe_id
       IN IF FavoritesUniqueIndex /\ FavoriteExists(u, rid)
          THEN /\ resp' = Response("store", u, rid, 500)
               /\ UNCHANGED <<favorites, nextFavId, lastWrite>>
          ELSE /\ favorites' = favorites \cup
                       {[id |-> nextFavId, user_id |-> u, recipe_id |-> rid]}
               /\ nextFavId' = nextFavId + 1
               /\ resp' = Response("store", u, rid, 201)
               /\ lastWrite' = [lastWrite EXCEPT ![u][rid] = "add"]
    /\ fh' = [fh EXCEPT ![h] = IdleFav]
    /\ UNCHANGED recipes

(***************************************************************************)
(* FavoriteController::destroy                                             *)
(***************************************************************************)
Destroy_First(h, u, rid) ==
    /\ Accepts(h)
    /\ IF ~RecipeExists(rid)
       THEN /\ resp' = Response("destroy", u, rid, 422)
            /\ fh' = fh
       ELSE \E e \in FirstIds(u, rid) :
              IF e = 0
              THEN /\ resp' = Response("destroy", u, rid, 404)
                   /\ fh' = fh
              ELSE /\ fh' = [fh EXCEPT ![h] = [pc |-> "delete", user |-> u,
                                              recipe_id |-> rid, found |-> e]]
                   /\ resp' = resp
    /\ UNCHANGED <<favorites, nextFavId, lastWrite, recipes>>

\* $favorite->delete(): DELETE ... WHERE id = <the row found>; it answers 200
\* also when the row is gone by now.
Destroy_Delete(h) ==
    /\ fh[h].pc = "delete"
    /\ favorites' = { f \in favorites : f.id # fh[h].found }
    /\ resp' = Response("destroy", fh[h].user, fh[h].recipe_id, 200)
    /\ lastWrite' = [lastWrite EXCEPT ![fh[h].user][fh[h].recipe_id] = "remove"]
    /\ fh' = [fh EXCEPT ![h] = IdleFav]
    /\ UNCHANGED <<nextFavId, recipes>>

(***************************************************************************)
(* FavoriteController::check                                               *)
(***************************************************************************)
Check_Exists(h, u, rid) ==
    /\ Accepts(h)
    /\ IF ~RecipeExists(rid)
       THEN resp' = Response("check", u, rid, 422)
       ELSE resp' = [Response("check", u, rid, 200)
                        EXCEPT !.is_favorited = FavoriteExists(u, rid)]
    /\ UNCHANGED <<favorites, nextFavId, fh, lastWrite, recipes>>

(***************************************************************************)
(* FavoriteController::fetchFavorites (no search term, first page)         *)
(***************************************************************************)
FetchFavorites_Query(h, u) ==
    /\ Accepts(h)
    /\ resp' = [Response("fetchFavorites", u, 0, 200)
                    EXCEPT !.data = FavoriteRecipeIds(u)]
    /\ UNCHANGED <<favorites, nextFavId, fh, lastWrite, recipes>>

(***************************************************************************)
(* FavoriteController::fetchFavorites with search term and sort toggle     *)
(***************************************************************************)
PageLimit == 20

\* $request->input('search')
SearchInputs == { <<>>, <<"A">> }

\* $request->input('sort_by_name', false): the parameter is absent or is the
\* text the client's boolean was written as in the query string.
SortInputs == { "absent", "true", "false" }

\* if ($sortByName): PHP takes every non-empty string but "0" for true.
SortTruthy(v) == v \in { "true", "false" }

\* where title like "%$search%" or summary like "%$search%"
SearchMatches(term, r) == TitleLike(term, r.title) \/ TitleLike(term, r.summary)

\* The recipes the query selects for user u.
FavoritesSelected(u, term) ==
    { r \in recipes :
        /\ FavoriteRows(u, r.id) # {}
        /\ Truthy(term) => SearchMatches(term, r) }

\* The order of the characters in the collation of the title column.
CharRank(c) ==
    CASE Lower(c) = "0" -> 0
      [] Lower(c) = "a" -> 1
      [] OTHER -> 2

RECURSIVE TitleBefore(_, _)
\* title a sorts before title b
TitleBefore(a, b) ==
    IF b = <<>> THEN FALSE
    ELSE IF a = <<>> THEN TRUE
    ELSE IF CharRank(Head(a)) # CharRank(Head(b))
         THEN CharRank(Head(a)) < CharRank(Head(b))
    ELSE TitleBefore(Tail(a), Tail(b))

\* orderBy('title', 'asc') or orderBy('created_at', 'desc'), on the recipes
\* the query selects: r precedes t.
OrderedBefore(sort, r, t) ==
    IF SortTruthy(sort) THEN TitleBefore(r.title, t.title)
    ELSE r.created_at > t.created_at

\* The lists of the ids of rows in an order the ORDER BY allows.
OrderedLists(rows, sort) ==
    { l \in [1..Cardinality(rows) -> { r.id : r \in rows }] :
        /\ \A i, j \in DOMAIN l : i # j => l[i] # l[j]
        /\ \A i, j \in DOMAIN l :
               i < j => ~OrderedBefore(sort,
                            CHOOSE t \in rows : t.id = l[j],
                            CHOOSE r \in rows : r.id = l[i]) }

\* ->paginate($limit, ['*'], 'page', $page): the first page
FirstPage(l) == IF Len(l) <= PageLimit THEN l ELSE SubSeq(l, 1, PageLimit)

FetchFavorites(h, u, term, sort) ==
    /\ Accepts(h)
    /\ \E l \in OrderedLists(FavoritesSelected(u, term), sort) :
          resp' = [Response("fetchFavorites", u, 0, 200)
                      EXCEPT !.data = { r.id : r \in FavoritesSelected(u, term) },
                             !.list = FirstPage(l),
                             !.search = term, !.sort_by_name = sort]
    /\ UNCHANGED <<favorites, nextFavId, fh, lastWrite, recipes>>

\* The requests of one worker at a time: adds, removes and lists over both
\* recipes.
FavListStep ==
    \E u \in UserIds :
        \/ \E rid \in ListRecipeIds : Store_Check(1, u, rid)
        \/ Store_Create(1)
        \/ \E rid \in ListRecipeIds : Destroy_First(1, u, rid)
        \/ Destroy_Delete(1)
        \/ \E term \in SearchInputs, sort \in SortInputs :
              FetchFavorites(1, u, term, sort)

FavInit ==
    /\ favorites = {}
    /\ nextFavId = 1
    /\ fh = [h \in FavHandlers |-> IdleFav]
    /\ resp = NoResponse
    /\ lastWrite = [u \in UserIds |->
                       [r \in RequestRecipeIds \cup ListRecipeIds |-> "none"]]

FavStep ==
    \E h \in FavHandlers :
        \/ \E u \in UserIds, rid \in RequestRecipeIds : Store_Check(h, u, rid)
        \/ Store_Create(h)
        \/ \E u \in UserIds, rid \in RequestRecipeIds : Destroy_First(h, u, rid)
        \/ Destroy_Delete(h)
        \/ \E u \in UserIds, rid \in RequestRecipeIds : Check_Exists(h, u, rid)
        \/ \E u \in UserIds : FetchFavorites_Query(h, u)

(***************************************************************************)
(* Recipe reconciliation: GET /recipe                                      *)
(***************************************************************************)
MaxItems == 2
MaxRecipeId == 3
Limit == 10

\* Two requests in flight at a time, each in its own PHP worker.
RecipeHandlers == {1, 2}

\* What the provider can return: items with an external id, a title and
\* readyInMinutes (0 stands for an absent field).  The same external id may
\* come with another title on a later call.
ProviderItems ==
    { [id |-> 11, title |-> <<"A", "b">>, readyInMinutes |-> 30],
      [id |-> 12, title |-> <<"b", "0">>, readyInMinutes |-> 20],
      [id |-> 13, title |-> <<"a">>, readyInMinutes |-> 0] }

\* The lists of at most n items; the provider returns a recipe once in a list.
RECURSIVE ListsUpTo(_)
ListsUpTo(n) ==
    IF n = 0 THEN { <<>> }
    ELSE LET shorter == ListsUpTo(n - 1) IN
           shorter \cup
           UNION { { Append(l, x) : x \in { y \in ProviderItems :
                                   \A i \in DOMAIN l : l[i].id # y.id } } :
                   l \in shorter }

\* $data['results'] ?? $data['recipes'] ?? []
ProviderLists == ListsUpTo(MaxItems)

\* $request->input('query'): absent, or a search term
Queries == { <<>>, <<"B">>, <<"0">> }

\* The rows the fallback query selects before ->limit().
FallbackRows(q) ==
    IF Truthy(q) THEN { r \in recipes : TitleLike(q, r.title) }
    ELSE recipes

\* ->limit($limit)->get(): any $limit of the rows (no ORDER BY, or random).
Limited(rows) ==
    IF Cardinality(rows) <= Limit THEN {rows}
    ELSE { d \in SUBSET rows : Cardinality(d) = Limit }

\* A recipes table without the unique index.
NoUniqueIndex == FALSE

\* $table->unsignedBigInteger('spoonacular_id')->unique()
RecipesUniqueIndex == TRUE

\* $table->integer('ready_in_minutes') is NOT NULL: the insert of an item
\* without readyInMinutes throws a QueryException.
InsertThrows(item) == item.readyInMinutes = 0

RowsWithExternalId(e) == { r \in recipes : r.spoonacular_id = e }

IdleRecipe ==
    [pc |-> "idle", query |-> <<>>, outcome |-> "none", todo |-> <<>>,
     ids |-> {}]

\* outcome is how the provider call of the answered request went.
NoRecipeResponse ==
    [status |-> "none", source |-> "none", count |-> 0, data |-> {},
     outcome |-> "none"]

AcceptsRecipe(h) ==
    /\ rh[h].pc = "idle"
    /\ \A g \in RecipeHandlers : g < h => rh[g].pc # "idle"

\* An exception that is not caught.
ThrowablePropagates == "propagate"

\* catch (\Throwable $e) { Log::error(...) }: control falls to the fallback
CatchThrowable == "fallback"

\* RecipeService::fetchRecipes, called by RecipeController::index: the
\* provider call throws, answers non-2xx (results []), or answers a list.
Index_Fetch(h, q, outcome, items) ==
    /\ AcceptsRecipe(h)
    /\ \/ /\ outcome = "throw" /\ items = <<>>
          /\ IF CatchThrowable = "fallback"
             THEN /\ rh' = [rh EXCEPT ![h] = [IdleRecipe EXCEPT !.pc = "fallback",
                                    !.query = q, !.outcome = outcome]]
                  /\ rresp' = NoRecipeResponse
             ELSE /\ rresp' = [NoRecipeResponse EXCEPT !.status = "error",
                                    !.outcome = outcome]
                  /\ rh' = rh
       \/ /\ outcome = "non2xx" /\ items = <<>>
          /\ rh' = [rh EXCEPT ![h] = [IdleRecipe EXCEPT !.pc = "fallback",
                            !.query = q, !.outcome = outcome]]
          /\ rresp' = NoRecipeResponse
       \/ /\ outcome = "empty" /\ items = <<>>
          /\ rh' = [rh EXCEPT ![h] = [IdleRecipe EXCEPT !.pc = "fallback",
                            !.query = q, !.outcome = outcome]]
          /\ rresp' = NoRecipeResponse
       \/ /\ outcome = "items" /\ items # <<>>
          /\ rh' = [rh EXCEPT ![h] = [IdleRecipe EXCEPT !.pc = "select",
                            !.query = q, !.outcome = outcome, !.todo = items,
                            !.ids = { items[i].id : i \in DOMAIN items }]]
          /\ rresp' = NoRecipeResponse
    /\ UNCHANGED <<recipes, nextRecipeId>>

\* The handler is done with the item at the head of todo.
NextItem(r) ==
    [r EXCEPT !.todo = Tail(r.todo),
              !.pc = IF Tail(r.todo) = <<>> THEN "reread" ELSE "select"]

\* updateOrCreate: the row that was found takes the values of the item.
UpdateOrCreateFound(row, item) ==
    [row EXCEPT !.title = item.title, !.ready_in_minutes = item.readyInMinutes]

\* firstOrCreate: the row that was found is returned as it is; the values of
\* the second argument are for a new row only.
FirstOrCreateFound(row, item) == row

\* Recipe::firstOrCreate, its SELECT: where(spoonacular_id)->first()
SaveRecipe_First(h) ==
    /\ rh[h].pc = "select"
    /\ LET item == Head(rh[h].todo) IN
         IF RowsWithExternalId(item.id) # {}
         THEN /\ rh' = [rh EXCEPT ![h] = NextItem(rh[h])]
              /\ recipes' = { IF r.spoonacular_id = item.id
                              THEN FirstOrCreateFound(r, item) ELSE r :
                              r \in recipes }
         ELSE /\ rh' = [rh EXCEPT ![h].pc = "insert"]
              /\ recipes' = recipes
    /\ rresp' = NoRecipeResponse
    /\ UNCHANGED nextRecipeId

\* Recipe::firstOrCreate, its INSERT (createOrFirst): a unique violation is
\* caught and the existing row is read; any other QueryException propagates
\* to the catch block of RecipeController::index.
SaveRecipe_Create(h) ==
    /\ rh[h].pc = "insert"
    /\ nextRecipeId <= MaxRecipeId
    /\ LET item == Head(rh[h].todo) IN
         IF InsertThrows(item)
         THEN /\ IF CatchThrowable = "fallback"
                 THEN /\ rh' = [rh EXCEPT ![h].pc = "fallback", ![h].todo = <<>>]
                      /\ rresp' = NoRecipeResponse
                 ELSE /\ rresp' = [NoRecipeResponse EXCEPT !.status = "error",
                                      !.outcome = rh[h].outcome]
                      /\ rh' = [rh EXCEPT ![h] = IdleRecipe]
              /\ UNCHANGED <<recipes, nextRecipeId>>
         ELSE IF RecipesUniqueIndex /\ RowsWithExternalId(item.id) # {}
         THEN /\ rh' = [rh EXCEPT ![h] = NextItem(rh[h])]
              /\ rresp' = NoRecipeResponse
              /\ UNCHANGED <<recipes, nextRecipeId>>
         ELSE /\ recipes' = recipes \cup
                    {[id |-> nextRecipeId, spoonacular_id |-> item.id,
                      title |-> item.title,
                      ready_in_minutes |-> item.readyInMinutes]}
              /\ nextRecipeId' = nextRecipeId + 1
              /\ rh' = [rh EXCEPT ![h] = NextItem(rh[h])]
              /\ rresp' = NoRecipeResponse

\* Recipe::with(...)->whereIn('spoonacular_id', ids)->get() and the api answer
Index_ReRead(h) ==
    /\ rh[h].pc = "reread"
    /\ LET rows == { r \in recipes : r.spoonacular_id \in rh[h].ids } IN
         rresp' = [status |-> "success", source |-> "api",
                   count |-> Cardinality(rows), data |-> rows,
                   outcome |-> rh[h].outcome]
    /\ rh' = [rh EXCEPT ![h] = IdleRecipe]
    /\ UNCHANGED <<recipes, nextRecipeId>>

\* The fallback query and the database answer; the query itself may throw
\* (it is outside the try block), which the framework answers with a 500.
Index_Fallback(h, dbFails) ==
    /\ rh[h].pc = "fallback"
    /\ IF dbFails
       THEN rresp' = [NoRecipeResponse EXCEPT !.status = "error",
                          !.source = "fallback threw",
                          !.outcome = rh[h].outcome]
       ELSE \E d \in Limited(FallbackRows(rh[h].query)) :
              rresp' = [status |-> "success", source |-> "database",
                        count |-> Cardinality(d), data |-> d,
                        outcome |-> rh[h].outcome]
    /\ rh' = [rh EXCEPT ![h] = IdleRecipe]
    /\ UNCHANGED <<recipes, nextRecipeId>>

RecipeInit ==
    /\ nextRecipeId = 1
    /\ rh = [h \in RecipeHandlers |-> IdleRecipe]
    /\ rresp = NoRecipeResponse

RecipeStep ==
    \E h \in RecipeHandlers :
        \/ \E q \in Queries :
              \/ \E o \in {"throw", "non2xx", "empty"} : Index_Fetch(h, q, o, <<>>)
              \/ \E items \in ProviderLists : Index_Fetch(h, q, "items", items)
        \/ SaveRecipe_First(h)
        \/ SaveRecipe_Create(h)
        \/ Index_ReRead(h)
        \/ \E dbFails \in BOOLEAN : Index_Fallback(h, dbFails)

\* The provider returns an item it returned before, by now with another title
\* and another preparation time.
RepeatedItems ==
    { [id |-> 11, title |-> <<"A", "b">>, readyInMinutes |-> 30],
      [id |-> 11, title |-> <<"c">>, readyInMinutes |-> 45],
      [id |-> 12, title |-> <<"b", "0">>, readyInMinutes |-> 20] }

RepeatedLists ==
    { <<x>> : x \in RepeatedItems } \cup
    { l \in { <<x, y>> : x, y \in RepeatedItems } : l[1].id # l[2].id }

\* GET /recipe requests whose provider call returns such items.
UpsertStep ==
    \E h \in RecipeHandlers :
        \/ \E items \in RepeatedLists : Index_Fetch(h, <<>>, "items", items)
        \/ SaveRecipe_First(h)
        \/ SaveRecipe_Create(h)
        \/ Index_ReRead(h)

(***************************************************************************)
(* Reconciliation: the dish types and ingredients of a provider item       *)
(***************************************************************************)
MaxDishTypeId == 3
MaxIngredientId == 2

AttachHandlers == {1, 2}

\* The rows of the recipes table that saveRecipe got from firstOrCreate.
AttachRecipeIds == {1, 2}

\* $data['dishTypes'] ?? [] and $data['extendedIngredients'] ?? [] of the
\* provider's items: two recipes with a dish type and an ingredient in common,
\* and one with neither.
AttachItems ==
    { [dishTypes |-> <<"main">>,
       extendedIngredients |-> <<[id |-> 7, name |-> "salt"]>>],
      [dishTypes |-> <<"main", "side">>,
       extendedIngredients |-> <<[id |-> 7, name |-> "sea salt"]>>],
      [dishTypes |-> <<>>, extendedIngredients |-> <<>>] }

\* The schemas of the dish_types and ingredients tables (their migrations are
\* not among the source files): an id and the columns the entities have, with
\* no unique index on the name or on the external id.
DishTypesUniqueIndex == FALSE
IngredientsUniqueIndex == FALSE

DishTypesNamed(name) == { d \in dishTypes : d.name = name }
IngredientsWithExternalId(x) == { i \in ingredients : i.spoonacular_id = x }

\* first(): the row of a set the query returns, the one with the lowest id.
FirstRow(rows) == CHOOSE r \in rows : \A t \in rows : r.id <= t.id

IdleAttach ==
    [pc |-> "idle", recipe |-> 0, dishTypes |-> <<>>,
     extendedIngredients |-> <<>>, ids |-> {}]

AcceptsAttach(h) ==
    /\ ah[h].pc = "idle"
    /\ \A g \in AttachHandlers : g < h => ah[g].pc # "idle"

\* attachIngredients after attachDishTypes: if (empty($ingredients)) return;
AfterDishTypes(a) ==
    IF a.extendedIngredients = <<>> THEN IdleAttach
    ELSE [a EXCEPT !.pc = "ingredient_first", !.ids = {}]

\* saveRecipe, after Recipe::firstOrCreate returned the row recipe:
\* attachDishTypes begins; if (empty($dishTypes)) return;
SaveRecipe_Attach(h, recipe, item) ==
    /\ AcceptsAttach(h)
    /\ LET a == [pc |-> "dishType_first", recipe |-> recipe,
                 dishTypes |-> item.dishTypes,
                 extendedIngredients |-> item.extendedIngredients, ids |-> {}]
       IN ah' = [ah EXCEPT ![h] = IF item.dishTypes = <<>>
                                  THEN AfterDishTypes(a) ELSE a]
    /\ UNCHANGED <<dishTypes, nextDishTypeId, ingredients, nextIngredientId,
                   recipeDishType, recipeIngredient>>

\* The loop of attachDishTypes goes on to the next name, or to the sync.
DishTypeCollected(a, id) ==
    [a EXCEPT !.ids = @ \cup {id}, !.dishTypes = Tail(@),
              !.pc = IF Len(a.dishTypes) = 1 THEN "dishTypes_sync"
                     ELSE "dishType_first"]

\* DishType::firstOrCreate(['name' => $type]), the SELECT
DishType_First(h) ==
    /\ ah[h].pc = "dishType_first"
    /\ LET rows == DishTypesNamed(Head(ah[h].dishTypes))
       IN ah' = [ah EXCEPT ![h] =
                    IF rows # {} THEN DishTypeCollected(@, FirstRow(rows).id)
                    ELSE [@ EXCEPT !.pc = "dishType_create"]]
    /\ UNCHANGED <<dishTypes, nextDishTypeId, ingredients, nextIngredientId,
                   recipeDishType, recipeIngredient>>

\* DishType::firstOrCreate(['name' => $type]), the INSERT; a unique index
\* would refuse a name that a row has by now, and the row is read instead.
DishType_Create(h) ==
    /\ ah[h].pc = "dishType_create"
    /\ nextDishTypeId <= MaxDishTypeId
    /\ LET name == Head(ah[h].dishTypes)
       IN IF DishTypesUniqueIndex /\ DishTypesNamed(name) # {}
          THEN /\ ah' = [ah EXCEPT ![h] =
                           DishTypeCollected(@, FirstRow(DishTypesNamed(name)).id)]
               /\ UNCHANGED <<dishTypes, nextDishTypeId>>
          ELSE /\ dishTypes' = dishTypes \cup
                     {[id |-> nextDishTypeId, name |-> name]}
               /\ nextDishTypeId' = nextDishTypeId + 1
               /\ ah' = [ah EXCEPT ![h] = DishTypeCollected(@, nextDishTypeId)]
    /\ UNCHANGED <<ingredients, nextIngredientId, recipeDishType,
                   recipeIngredient>>

\* sync($ids): the rows of the recipe that are not among the new ones are
\* detached.
SyncDetaching(rows, recipe, new) ==
    { r \in rows : r.recipe_id # recipe } \cup new

\* syncWithoutDetaching($ids): the rows that are missing are attached.
SyncWithoutDetaching(rows, recipe, new) == rows \cup new

\* $recipe->dishTypes()->syncWithoutDetaching($ids), and attachIngredients
\* begins.
DishTypes_Sync(h) ==
    /\ ah[h].pc = "dishTypes_sync"
    /\ recipeDishType' = SyncWithoutDetaching(recipeDishType, ah[h].recipe,
           { [recipe_id |-> ah[h].recipe, dish_type_id |-> id] : id \in ah[h].ids })
    /\ ah' = [ah EXCEPT ![h] = AfterDishTypes(@)]
    /\ UNCHANGED <<dishTypes, nextDishTypeId, ingredients, nextIngredientId,
                   recipeIngredient>>

\* The loop of attachIngredients goes on to the next item, or to the sync.
IngredientCollected(a, id) ==
    [a EXCEPT !.ids = @ \cup {id}, !.extendedIngredients = Tail(@),
              !.pc = IF Len(a.extendedIngredients) = 1 THEN "ingredients_sync"
                     ELSE "ingredient_first"]

\* Ingredient::firstOrCreate(['spoonacular_id' => ...], ['name' => ...]), the
\* SELECT
Ingredient_First(h) ==
    /\ ah[h].pc = "ingredient_first"
    /\ LET rows == IngredientsWithExternalId(Head(ah[h].extendedIngredients).id)
       IN ah' = [ah EXCEPT ![h] =
                    IF rows # {} THEN IngredientCollected(@, FirstRow(rows).id)
                    ELSE [@ EXCEPT !.pc = "ingredient_create"]]
    /\ UNCHANGED <<dishTypes, nextDishTypeId, ingredients, nextIngredientId,
                   recipeDishType, recipeIngredient>>

\* Ingredient::firstOrCreate, the INSERT
Ingredient_Create(h) ==
    /\ ah[h].pc = "ingredient_create"
    /\ nextIngredientId <= MaxIngredientId
    /\ LET data == Head(ah[h].extendedIngredients)
       IN IF IngredientsUniqueIndex /\ IngredientsWithExternalId(data.id) # {}
          THEN /\ ah' = [ah EXCEPT ![h] = IngredientCollected(@,
                              FirstRow(IngredientsWithExternalId(data.id)).id)]
               /\ UNCHANGED <<ingredients, nextIngredientId>>
          ELSE /\ ingredients' = ingredients \cup
                     {[id |-> nextIngredientId, spoonacular_id |-> data.id,
                       name |-> data.name]}
               /\ nextIngredientId' = nextIngredientId + 1
               /\ ah' = [ah EXCEPT ![h] =
                            IngredientCollected(@, nextIngredientId)]
    /\ UNCHANGED <<dishTypes, nextDishTypeId, recipeDishType, recipeIngredient>>

\* $recipe->ingredients()->syncWithoutDetaching($syncData)
Ingredients_Sync(h) ==
    /\ ah[h].pc = "ingredients_sync"
    /\ recipeIngredient' = SyncWithoutDetaching(recipeIngredient, ah[h].recipe,
           { [recipe_id |-> ah[h].recipe, ingredient_id |-> id] : id \in ah[h].ids })
    /\ ah' = [ah EXCEPT ![h] = IdleAttach]
    /\ UNCHANGED <<dishTypes, nextDishTypeId, ingredients, nextIngredientId,
                   recipeDishType>>

AttachInit ==
    /\ dishTypes = {}
    /\ nextDishTypeId = 1
    /\ ingredients = {}
    /\ nextIngredientId = 1
    /\ recipeDishType = {}
    /\ recipeIngredient = {}
    /\ ah = [h \in AttachHandlers |-> IdleAttach]

AttachStep ==
    \E h \in AttachHandlers :
        \/ \E recipe \in AttachRecipeIds, item \in AttachItems :
              SaveRecipe_Attach(h, recipe, item)
        \/ DishType_First(h)
        \/ DishType_Create(h)
        \/ DishTypes_Sync(h)
        \/ Ingredient_First(h)
        \/ Ingredient_Create(h)
        \/ Ingredients_Sync(h)

(***************************************************************************)
(* Accounts: POST /auth/register and the profile update                    *)
(***************************************************************************)
MaxUserId == 2
MaxTokenId == 2

\* Two requests in flight at a time, each in its own PHP worker.
UserHandlers == {1, 2}

\* The values of the request fields; "bad" is not an e-mail address.
EmailInputs == { "a@x", "b@x", "bad" }
NameInputs == { "Ann", "Bob" }
PasswordInputs == { "p", "q" }

\* Hash::make($password)
HashMake(p) == <<"hash", p>>

\* Hash::check($password, $hash)
HashCheck(p, hash) == hash = HashMake(p)

\* PHP's empty() of a request field: null, "" and "0" are empty. (A field sent
\* as "" reaches the controller as null.)
Empty(v) == v \in { "", "0" }

\* The current password of a profile update: not sent, or a string; "0" is a
\* string that PHP takes for empty.
CurrentPasswordInputs == PasswordInputs \cup { "", "0" }

\* The 'email' validation rule.
IsEmail(e) == e # "bad"

\* The users table has a unique index on email.
UsersEmailUniqueIndex == TRUE

\* RegisterUserRequest rejects malformed input; it has no rule about e-mail
\* addresses already registered.
RegisterRulesUnique == FALSE

\* The rows with e-mail address e, the row with id except left out.
EmailTaken(e, except) == \E u \in users : u.email = e /\ u.id # except

IdleUser ==
    [pc |-> "idle", user |-> 0, name |-> "", email |-> "", password |-> "",
     token |-> 0]

NoUserResponse == [op |-> "none", status |-> 0, email |-> "", success |-> FALSE]

AcceptsUser(h) ==
    /\ uh[h].pc = "idle"
    /\ \A g \in UserHandlers : g < h => uh[g].pc # "idle"

\* RegisterUserController::store, $request->validated(): a request that fails
\* the rules is answered 422 before the controller runs.
Register_Validated(h, name, email, password) ==
    /\ AcceptsUser(h)
    /\ IF ~IsEmail(email) \/ (RegisterRulesUnique /\ EmailTaken(email, 0))
       THEN /\ uresp' = [op |-> "register", status |-> 422, email |-> email,
                         success |-> FALSE]
            /\ uh' = uh
       ELSE /\ uh' = [uh EXCEPT ![h] = [pc |-> "create", user |-> 0,
                           name |-> name, email |-> email,
                           password |-> password, token |-> 0]]
            /\ uresp' = NoUserResponse
    /\ UNCHANGED <<users, nextUserId, tokens, nextTokenId>>

\* RegisterUserController::store, User::create($data): the insert of an
\* e-mail address that a row already has throws a QueryException, which the
\* controller answers with 500; a new row is answered 201.
Register_Create(h) ==
    /\ uh[h].pc = "create"
    /\ nextUserId <= MaxUserId
    /\ IF UsersEmailUniqueIndex /\ EmailTaken(uh[h].email, 0)
       THEN /\ uresp' = [op |-> "register", status |-> 500,
                         email |-> uh[h].email, success |-> FALSE]
            /\ UNCHANGED <<users, nextUserId>>
       ELSE /\ users' = users \cup
                  {[id |-> nextUserId, name |-> uh[h].name,
                    email |-> uh[h].email,
                    password |-> HashMake(uh[h].password)]}
            /\ nextUserId' = nextUserId + 1
            /\ uresp' = [op |-> "register", status |-> 201,
                         email |-> uh[h].email, success |-> TRUE]
    /\ uh' = [uh EXCEPT ![h] = IdleUser]
    /\ UNCHANGED <<tokens, nextTokenId>>

\* ProfileController::update up to $user->save(): the request of the signed-in
\* user u is validated (the e-mail address must not be that of another row),
\* and when neither password field is empty() a wrong current password is
\* answered without saving. A request that goes on to $user->save() is noted
\* in uresp, with status 0: no response is sent yet.
Update_Validate(h, u, name, email, password, new_password) ==
    /\ AcceptsUser(h)
    /\ u \in users
    /\ IF ~IsEmail(email) \/ EmailTaken(email, u.id)
       THEN /\ uresp' = [op |-> "update", status |-> 422, email |-> email,
                         success |-> FALSE]
            /\ uh' = uh
       ELSE IF /\ ~Empty(password) /\ ~Empty(new_password)
               /\ ~HashCheck(password, u.password)
       THEN /\ uresp' = [op |-> "update", status |-> 200, email |-> email,
                         success |-> FALSE]
            /\ uh' = uh
       ELSE /\ uh' = [uh EXCEPT ![h] = [pc |-> "save", user |-> u.id,
                           name |-> name, email |-> email,
                           password |-> IF ~Empty(password) /\ ~Empty(new_password)
                                        THEN new_password ELSE "",
                           token |-> 0]]
            /\ uresp' = [op |-> "update validated", status |-> 0,
                         email |-> email, success |-> FALSE, user |-> u.id,
                         password |-> password, new_password |-> new_password]
    /\ UNCHANGED <<users, nextUserId, tokens, nextTokenId>>

\* ProfileController::update, $user->save() and the answer: an e-mail address
\* that another row took in the meantime makes the UPDATE throw, which the
\* framework answers with 500.
Update_Save(h) ==
    /\ uh[h].pc = "save"
    /\ IF UsersEmailUniqueIndex /\ EmailTaken(uh[h].email, uh[h].user)
       THEN /\ uresp' = [op |-> "update", status |-> 500,
                         email |-> uh[h].email, success |-> FALSE]
            /\ users' = users
       ELSE /\ users' =
                  { IF u.id = uh[h].user
                    THEN [u EXCEPT !.name = uh[h].name, !.email = uh[h].email,
                                   !.password = IF uh[h].password = "" THEN @
                                                ELSE HashMake(uh[h].password)]
                    ELSE u : u \in users }
            /\ uresp' = [op |-> "update", status |-> 200,
                         email |-> uh[h].email, success |-> TRUE]
    /\ uh' = [uh EXCEPT ![h] = IdleUser]
    /\ UNCHANGED <<nextUserId, tokens, nextTokenId>>

\* The bearer tokens a request can present; 0 stands for a string that was
\* never issued.
BearerTokens == 0..MaxTokenId

\* The routes of login, logout and profile update are not among the route
\* files kept here; logout is behind the token guard ("auth required").
LogoutRequiresAuth == TRUE

\* The guard: the row of the bearer token t, if the table has one.
TokenRows(t) == { x \in tokens : x.id = t }

\* $user->tokens()->delete(): every token of the user of token row x.
UserTokensDelete(x) == { y \in tokens : y.user # x.user }

\* $request->user()->currentAccessToken()->delete(): a DELETE by primary key.
CurrentAccessTokenDelete(x) == { y \in tokens : y.id # x.id }

\* LoginController::login: the credentials are checked against the row with
\* that e-mail address, and a new token row is made for the user.
Login(email, password) ==
    /\ nextTokenId <= MaxTokenId
    /\ IF ~IsEmail(email)
       THEN /\ uresp' = [op |-> "login", status |-> 422, email |-> email,
                         success |-> FALSE, token |-> 0, user |-> 0]
            /\ UNCHANGED <<tokens, nextTokenId>>
       ELSE IF ~\E u \in users : u.email = email /\ HashCheck(password, u.password)
       THEN /\ uresp' = [op |-> "login", status |-> 401, email |-> email,
                         success |-> FALSE, token |-> 0, user |-> 0]
            /\ UNCHANGED <<tokens, nextTokenId>>
       ELSE \E u \in users :
            /\ u.email = email
            /\ tokens' = tokens \cup {[id |-> nextTokenId, user |-> u.id]}
            /\ nextTokenId' = nextTokenId + 1
            /\ uresp' = [op |-> "login", status |-> 200, email |-> email,
                         success |-> TRUE, token |-> nextTokenId, user |-> u.id]
    /\ UNCHANGED <<users, nextUserId, uh>>

\* POST /auth/logout, the guard in front of LoginController::logout: a bearer
\* token without a row is answered 401.
Logout_Authenticate(h, t) ==
    /\ AcceptsUser(h)
    /\ IF LogoutRequiresAuth /\ TokenRows(t) = {}
       THEN /\ uresp' = [op |-> "logout", status |-> 401, email |-> "",
                         success |-> FALSE, token |-> t, user |-> 0]
            /\ uh' = uh
       ELSE \E x \in TokenRows(t) :
            /\ uh' = [uh EXCEPT ![h] = [IdleUser EXCEPT !.pc = "logout",
                                            !.user = x.user, !.token = x.id]]
            /\ uresp' = NoUserResponse
    /\ UNCHANGED <<users, nextUserId, tokens, nextTokenId>>

\* LoginController::logout
Logout(h) ==
    /\ uh[h].pc = "logout"
    /\ tokens' = CurrentAccessTokenDelete([id |-> uh[h].token, user |-> uh[h].user])
    /\ uresp' = [op |-> "logout", status |-> 200, email |-> "",
                 success |-> TRUE, token |-> uh[h].token, user |-> uh[h].user]
    /\ uh' = [uh EXCEPT ![h] = IdleUser]
    /\ UNCHANGED <<users, nextUserId, nextTokenId>>

UserInit ==
    /\ users = {}
    /\ nextUserId = 1
    /\ uh = [h \in UserHandlers |-> IdleUser]
    /\ uresp = NoUserResponse
    /\ tokens = {}
    /\ nextTokenId = 1

UserStep ==
    \E h \in UserHandlers :
        \/ \E name \in NameInputs, email \in EmailInputs,
              password \in PasswordInputs :
              Register_Validated(h, name, email, password)
        \/ Register_Create(h)
        \/ \E u \in users, name \in NameInputs, email \in EmailInputs,
              password \in CurrentPasswordInputs,
              new_password \in PasswordInputs \cup {""} :
              Update_Validate(h, u, name, email, password, new_password)
        \/ Update_Save(h)

\* Sign-up, login and logout requests, as far as tokens are concerned.
AuthStep ==
    \/ \E email \in EmailInputs, password \in PasswordInputs :
          Register_Validated(1, "Ann", email, password)
    \/ Register_Create(1)
    \/ \E email \in EmailInputs, password \in PasswordInputs :
          Login(email, password)
    \/ \E h \in UserHandlers :
          \/ \E t \in BearerTokens : Logout_Authenticate(h, t)
          \/ Logout(h)

(***************************************************************************)
(* The client: auth store, router and notification store                   *)
(***************************************************************************)
Null == "null"

\* The users who sign in within the tab: result.data.user of a login.
Accounts == { "A", "B" }

\* export const routes = [...]
Routes ==
    { [path |-> "/", name |-> "home", meta |-> {"requiresGuest"}],
      [path |-> "/about", name |-> "about", meta |-> {"requiresGuest"}],
      [path |-> "/profile", name |-> "profile", meta |-> {"requiresAuth"}],
      [path |-> "/saved", name |-> "saved", meta |-> {"requiresAuth"}],
      [path |-> "/search", name |-> "search", meta |-> {"requiresAuth"}] }

\* The locations a navigation can ask for: the paths of the routes and a path
\* that no route matches.
Paths == { r.path : r \in Routes } \cup { "/nowhere" }

\* to.matched
Matched(to) == { r \in Routes : r.path = to }

\* to.name
RouteName(to) ==
    IF Matched(to) = {} THEN "undefined"
    ELSE (CHOOSE r \in Matched(to) : TRUE).name

\* A guard that sends anonymous users to the profile page.
PathOfNameProfile(n) == "/profile"

\* The location of next({ name: n })
PathOfName(n) == (CHOOSE r \in Routes : r.name = n).path

\* A guard that lets signed-in users onto guest-only routes.
RequiresGuestIgnored(to) == FALSE

\* to.matched.some((record) => record.meta.requiresAuth)
RequiresAuth(to) == \E r \in Matched(to) : "requiresAuth" \in r.meta

\* to.meta.requiresGuest
RequiresGuest(to) == \E r \in Matched(to) : "requiresGuest" \in r.meta

NoNavigation == [stage |-> "none", to |-> "none", redirectedFrom |-> "none"]

\* router.push(to): a new navigation, which takes the place of a pending one
Push(to) == [stage |-> "guard", to |-> to, redirectedFrom |-> "none"]

\* next(location) in a guard: the navigation goes on to another location
Redirect(nav, to) ==
    [stage |-> "guard", to |-> to,
     redirectedFrom |-> IF nav.redirectedFrom = "none" THEN nav.to
                        ELSE nav.redirectedFrom]

NoStorage == [user |-> Null, token |-> Null]

\* sessionStorage.removeItem(key)
RemoveItem(s, key) == [s EXCEPT ![key] = Null]

\* A logout that leaves the token entry in the storage.
LogoutStorageKeepsToken(s) == RemoveItem(s, "user")

\* sessionStorage.removeItem("user"); sessionStorage.removeItem("token")
LogoutStorage(s) == RemoveItem(RemoveItem(s, "user"), "token")

\* The notification store: message, timeoutId and the fade-out timers that
\* are pending. A timer is known by the message it was started for; timeoutId
\* is Null, the timer held, or "fired" for a timer that has fired.
NoNotification == [message |-> "", timeoutId |-> Null, pending |-> {}]

\* A triggerFadeOut that leaves the previous timer running.
FadeOutKept(n) == n

\* if (this.timeoutId) clearTimeout(this.timeoutId)
ClearFadeOut(n) ==
    IF n.timeoutId # Null THEN [n EXCEPT !.pending = @ \ {n.timeoutId}] ELSE n

\* triggerFadeOut(): the timer held is cleared and a new one is started
TriggerFadeOut(n) ==
    [message |-> n.message, timeoutId |-> n.message,
     pending |-> ClearFadeOut(n).pending \cup {n.message}]

\* showMessage(message): this.message = message; this.triggerFadeOut()
ShowMessage(n, message) == TriggerFadeOut([n EXCEPT !.message = message])

\* A clearMessage that empties the message and leaves the timer running.
ClearMessageKeepsTimer(n) == [n EXCEPT !.message = ""]

\* clearMessage(): the timer held is cleared and forgotten, the message emptied
ClearMessage(n) ==
    [message |-> "", timeoutId |-> Null, pending |-> ClearFadeOut(n).pending]

NoEvent ==
    [op |-> "none", success |-> FALSE, redirectedFrom |-> "none",
     invokedAuthenticated |-> FALSE, message |-> "", escaped |-> FALSE]

\* try { ... } catch (error) { ... return ... } of a store action: what was
\* thrown in the try block does not leave the action.
ErrorPropagates(thrown) == thrown

CatchError(thrown) == FALSE

IdleCall == [pc |-> "idle", invokedAuthenticated |-> FALSE]

\* The user follows a link or enters a location.
Navigate(to) ==
    /\ pending' = Push(to)
    /\ ev' = [NoEvent EXCEPT !.op = "push"]
    /\ UNCHANGED <<logged_user, token, sessionStorage, currentRoute, loginCall,
                   logoutCall, notif>>

\* router.beforeEach((to, from, next) => ...)
BeforeEach ==
    /\ pending.stage = "guard"
    /\ notif' = ShowMessage(notif, RouteName(pending.to))
    /\ pending' =
         IF RequiresAuth(pending.to) /\ logged_user = Null
         THEN Redirect(pending, PathOfName("home"))
         ELSE IF RequiresGuest(pending.to) /\ logged_user # Null
         THEN Redirect(pending, "/search")
         ELSE [pending EXCEPT !.stage = "resolve"]
    /\ ev' = [NoEvent EXCEPT !.op = "beforeEach"]
    /\ UNCHANGED <<logged_user, token, sessionStorage, currentRoute, loginCall,
                   logoutCall>>

\* The navigation that passed the guard ends: the lazily imported component
\* has loaded and the route is displayed, or the import failed.
Finalize(loaded) ==
    /\ pending.stage = "resolve"
    /\ currentRoute' = IF loaded THEN pending.to ELSE currentRoute
    /\ pending' = NoNavigation
    /\ ev' = [NoEvent EXCEPT !.op = "finalize", !.success = loaded,
                             !.redirectedFrom = pending.redirectedFrom]
    /\ UNCHANGED <<logged_user, token, sessionStorage, loginCall, logoutCall,
                   notif>>

\* loginUser: const result = await login(email, password)
LoginUser_Await ==
    /\ loginCall.pc = "idle"
    /\ loginCall' = [pc |-> "await", invokedAuthenticated |-> logged_user # Null]
    /\ ev' = [NoEvent EXCEPT !.op = "loginUser called"]
    /\ UNCHANGED <<logged_user, token, sessionStorage, currentRoute, pending,
                   logoutCall, notif>>

\* loginUser after the await: success is result.success
LoginUser_Return(success) ==
    /\ loginCall.pc = "await"
    /\ loginCall' = IdleCall
    /\ IF success
       THEN /\ \E account \in Accounts :
                  /\ logged_user' = account
                  /\ sessionStorage' = [user |-> account, token |-> "token"]
            /\ token' = "token"
            /\ pending' = Push("/search")
       ELSE UNCHANGED <<logged_user, token, sessionStorage, pending>>
    /\ ev' = [NoEvent EXCEPT !.op = "loginUser", !.success = success,
                  !.invokedAuthenticated = loginCall.invokedAuthenticated,
                  !.message = IF success THEN "Login successful"
                              ELSE "Login failed"]
    /\ UNCHANGED <<currentRoute, logoutCall, notif>>

\* loginUser, the await rejects: catch (error)
LoginUser_Catch ==
    /\ loginCall.pc = "await"
    /\ loginCall' = IdleCall
    /\ ev' = [NoEvent EXCEPT !.op = "loginUser", !.success = FALSE,
                  !.invokedAuthenticated = loginCall.invokedAuthenticated,
                  !.message = "An error occurred during login",
                  !.escaped = CatchError(TRUE)]
    /\ UNCHANGED <<logged_user, token, sessionStorage, currentRoute, pending,
                   logoutCall, notif>>

\* logoutUser: const response = await logout()
LogoutUser_Await ==
    /\ logoutCall.pc = "idle"
    /\ logoutCall' = [pc |-> "await", invokedAuthenticated |-> logged_user # Null]
    /\ ev' = [NoEvent EXCEPT !.op = "logoutUser called"]
    /\ UNCHANGED <<logged_user, token, sessionStorage, currentRoute, pending,
                   loginCall, notif>>

\* logoutUser after the await: success is response.success
LogoutUser_Return(success) ==
    /\ logoutCall.pc = "await"
    /\ logoutCall' = IdleCall
    /\ IF success
       THEN /\ logged_user' = Null
            /\ token' = Null
            /\ sessionStorage' = LogoutStorage(sessionStorage)
            /\ pending' = Push("/")
       ELSE UNCHANGED <<logged_user, token, sessionStorage, pending>>
    /\ ev' = [NoEvent EXCEPT !.op = "logoutUser", !.success = success,
                  !.invokedAuthenticated = logoutCall.invokedAuthenticated,
                  !.message = IF success THEN "Logout successful"
                              ELSE "Logout failed"]
    /\ UNCHANGED <<currentRoute, loginCall, notif>>

\* logoutUser, the await rejects: catch (error)
LogoutUser_Catch ==
    /\ logoutCall.pc = "await"
    /\ logoutCall' = IdleCall
    /\ ev' = [NoEvent EXCEPT !.op = "logoutUser", !.success = FALSE,
                  !.invokedAuthenticated = logoutCall.invokedAuthenticated,
                  !.message = "An unexpected error occurred during logout",
                  !.escaped = CatchError(TRUE)]
    /\ UNCHANGED <<logged_user, token, sessionStorage, currentRoute, pending,
                   loginCall, notif>>

\* The fade-out timer t of triggerFadeOut fires: this.message = ''
FadeOut_Timer(t) ==
    /\ t \in notif.pending
    /\ notif' = [message |-> "",
                 timeoutId |-> IF notif.timeoutId = t THEN "fired"
                               ELSE notif.timeoutId,
                 pending |-> notif.pending \ {t}]
    /\ ev' = [NoEvent EXCEPT !.op = "timeout"]
    /\ UNCHANGED <<logged_user, token, sessionStorage, currentRoute, pending,
                   loginCall, logoutCall>>

\* The messages the router shows: the names of the locations.
RouteMessages == { RouteName(to) : to \in Paths }

FadeOut ==
    /\ \E t \in notif.pending : FadeOut_Timer(t)
    /\ ev' = [NoEvent EXCEPT !.op = "timeout"]
    /\ UNCHANGED <<logged_user, token, sessionStorage, currentRoute, pending,
                   loginCall, logoutCall>>

\* A component calls clearMessage().
ClearMessage_Call ==
    /\ notif' = ClearMessage(notif)
    /\ ev' = [NoEvent EXCEPT !.op = "clearMessage"]
    /\ UNCHANGED <<logged_user, token, sessionStorage, currentRoute, pending,
                   loginCall, logoutCall>>

\* The page loads: the auth store reads the tab's storage, which is empty or
\* holds the entries of an earlier login, and the router starts the
\* navigation to the location of the page.
ClientLoad(stored, to) ==
    /\ sessionStorage = IF stored THEN [user |-> "A", token |-> "token"]
                        ELSE NoStorage
    /\ logged_user = sessionStorage.user
    /\ token = sessionStorage.token
    /\ currentRoute = "START_LOCATION"
    /\ pending = Push(to)
    /\ loginCall = IdleCall
    /\ logoutCall = IdleCall
    /\ notif = NoNotification
    /\ ev = NoEvent

ClientStep ==
    \/ \E to \in Paths : Navigate(to)
    \/ BeforeEach
    \/ \E loaded \in BOOLEAN : Finalize(loaded)
    \/ LoginUser_Await
    \/ \E success \in BOOLEAN : LoginUser_Return(success)
    \/ LoginUser_Catch
    \/ LogoutUser_Await
    \/ \E success \in BOOLEAN : LogoutUser_Return(success)
    \/ LogoutUser_Catch
    \/ FadeOut
    \/ ClearMessage_Call

(***************************************************************************)
(* The client: recipe store and search bar                                 *)
(***************************************************************************)
MaxCalls == 2

\* The values of the search field: empty, blank, and two terms.
SearchTerms == { "", " ", "a", "b" }

\* searchTerm.trim() !== ''
NotBlank(term) == term # "" /\ term # " "

\* What GET /api/recipe answers to the client: a payload with a list of
\* recipes, a payload without one, or an error.
FetchOutcomes ==
    { [success |-> TRUE, data |-> <<"r1">>, error |-> ""],
      [success |-> TRUE, data |-> <<"r2">>, error |-> ""],
      [success |-> TRUE, data |-> <<>>, error |-> ""],
      [success |-> FALSE, data |-> <<>>, error |-> "Fetching recipes failed."] }

\* let debounceTimer: a timer is known by the term it was started for.
NoTimer == [id |-> "undefined", pending |-> {}]

\* A watcher that leaves the previous timer running.
ClearTimeoutSkipped(t) == t

\* clearTimeout(debounceTimer)
ClearTimeout(t) == [t EXCEPT !.pending = @ \ {t.id}]

\* debounceTimer = setTimeout(() => { fetchRecipes(searchTerm) }, 1000)
SetTimeout(t, term) == [id |-> term, pending |-> t.pending \cup {term}]

NoLatest == [call |-> 0, recipes |-> <<>>, error |-> ""]

\* useRecipeStore.fetchRecipes up to the await: loading on, error cleared,
\* the request sent.
FetchRecipes_Call(query) ==
    /\ issued < MaxCalls
    /\ issued' = issued + 1
    /\ loading' = TRUE
    /\ error' = ""
    /\ fetchCalls' = fetchCalls \cup {[call |-> issued + 1, query |-> query]}
    /\ UNCHANGED <<storeRecipes, latest>>

\* The store after the response of a fetchRecipes call: recipes and error.
AfterResponse(outcome) ==
    IF outcome.success
    THEN [recipes |-> outcome.data, error |-> error]
    ELSE [recipes |-> <<>>, error |-> outcome.error]

\* useRecipeStore.fetchRecipes after the await
FetchRecipes_Return(c, outcome) ==
    /\ c \in fetchCalls
    /\ fetchCalls' = fetchCalls \ {c}
    /\ storeRecipes' = AfterResponse(outcome).recipes
    /\ error' = AfterResponse(outcome).error
    /\ loading' = FALSE
    /\ latest' = IF c.call = issued
                 THEN [call |-> c.call,
                       recipes |-> IF outcome.success THEN outcome.data
                                   ELSE <<>>,
                       error |-> outcome.error]
                 ELSE latest
    /\ UNCHANGED issued

\* The user edits the search field; watch(search, ...) restarts the debounce
\* timer for a term that is not blank.
Watch_Search(term) ==
    /\ term # search
    /\ search' = term
    /\ debounceTimer' = IF NotBlank(term)
                        THEN SetTimeout(ClearTimeout(debounceTimer), term)
                        ELSE ClearTimeout(debounceTimer)
    /\ UNCHANGED <<storeRecipes, error, loading, fetchCalls, issued, latest>>

\* The debounce timer fires: fetchRecipes(searchTerm)
Debounce_Fires ==
    /\ \E term \in debounceTimer.pending :
          /\ debounceTimer' = [debounceTimer EXCEPT !.pending = @ \ {term}]
          /\ FetchRecipes_Call(term)
    /\ UNCHANGED search

\* The form is submitted: if (search.value) fetchRecipes(search.value)
OnSearch ==
    /\ IF search # ""
       THEN FetchRecipes_Call(search)
       ELSE UNCHANGED <<storeRecipes, error, loading, fetchCalls, issued,
                        latest>>
    /\ UNCHANGED <<search, debounceTimer>>

StoreInit ==
    /\ search = ""
    /\ debounceTimer = NoTimer
    /\ storeRecipes = <<>>
    /\ error = ""
    /\ loading = FALSE
    /\ fetchCalls = {}
    /\ issued = 0
    /\ latest = NoLatest

StoreStep ==
    \/ \E term \in SearchTerms : Watch_Search(term)
    \/ Debounce_Fires
    \/ OnSearch
    \/ \E c \in fetchCalls, outcome \in FetchOutcomes :
          /\ FetchRecipes_Return(c, outcome)
          /\ UNCHANGED <<search, debounceTimer>>

(***************************************************************************)
(* The client: the store actions and how they end                          *)
(***************************************************************************)
\* What a service call gives the action that awaits it. The services answer
\* { success: true, data } or, from their own catch block (an HTTP error
\* answer, a network failure), { success: false, error }; data says whether
\* the payload has what the action reads from it (data?.data, is_favorited
\* === true). A service whose catch block itself throws rejects.
ServiceResults ==
    { [rejected |-> FALSE, success |-> TRUE, data |-> TRUE, error |-> ""],
      [rejected |-> FALSE, success |-> TRUE, data |-> FALSE, error |-> ""],
      [rejected |-> FALSE, success |-> FALSE, data |-> FALSE,
       error |-> "Request failed with status code 500"],
      [rejected |-> FALSE, success |-> FALSE, data |-> FALSE,
       error |-> "Network Error"],
      [rejected |-> TRUE, success |-> FALSE, data |-> FALSE, error |-> ""] }

\* The actions of this section.
AwaitingActions ==
    { "signupUser", "loadSavedRecipes", "isRecipeSaved", "saveRecipe",
      "removeRecipe" }

IdleStoreCall == [action |-> "none", pc |-> "idle"]

\* The view calls one store action and waits for it before the next.
NoActionInFlight ==
    /\ storeCall.pc = "idle"
    /\ loginCall.pc = "idle"
    /\ logoutCall.pc = "idle"
    /\ fetchCalls = {}

\* An action returned, or threw: what its caller gets.
Completion(op, success, message, thrown) ==
    [NoEvent EXCEPT !.op = op, !.success = success, !.message = message,
                    !.escaped = thrown]

\* An action is called and runs up to its first await; saveRecipe awaits
\* this.isRecipeSaved(recipe) first.
Action_Await(action) ==
    /\ storeCall.pc = "idle"
    /\ storeCall' = [action |-> action, pc |-> "await"]
    /\ ev' = [NoEvent EXCEPT !.op = "called"]
    /\ UNCHANGED <<savedRecipes, notif>>

\* signupUser after the await
SignupUser_Return(res) ==
    /\ storeCall = [action |-> "signupUser", pc |-> "await"]
    /\ storeCall' = IdleStoreCall
    /\ ev' = IF res.rejected
             THEN Completion("signupUser", FALSE,
                             "An unexpected error occurred during signup",
                             CatchError(TRUE))
             ELSE IF res.success
             THEN Completion("signupUser", TRUE, "Signup successful", FALSE)
             ELSE Completion("signupUser", FALSE, res.error, FALSE)
    /\ UNCHANGED <<savedRecipes, notif>>

\* result.data.data of fetchFavorites: the favorites of the user whose token
\* the request carried, the one of the storage.
FavoritesOf(user) ==
    CASE user = "A" -> "favorites of A"
      [] user = "B" -> "favorites of B"
      [] OTHER -> "result.data.data"

\* loadSavedRecipes after the await: the list is kept and returned, or [] is.
LoadSavedRecipes_Return(res) ==
    /\ storeCall = [action |-> "loadSavedRecipes", pc |-> "await"]
    /\ storeCall' = IdleStoreCall
    /\ savedRecipes' = IF ~res.rejected /\ res.success /\ res.data
                       THEN FavoritesOf(sessionStorage.user) ELSE savedRecipes
    /\ ev' = IF res.rejected
             THEN Completion("loadSavedRecipes", FALSE, "", CatchError(TRUE))
             ELSE Completion("loadSavedRecipes", res.success /\ res.data, "",
                             FALSE)
    /\ UNCHANGED notif

\* What isRecipeSaved returns: result.success && result.data?.is_favorited
\* === true, and false from its catch block.
IsRecipeSavedValue(res) == ~res.rejected /\ res.success /\ res.data

\* isRecipeSaved after the await
IsRecipeSaved_Return(res) ==
    /\ storeCall = [action |-> "isRecipeSaved", pc |-> "await"]
    /\ storeCall' = IdleStoreCall
    /\ ev' = Completion("isRecipeSaved", IsRecipeSavedValue(res), "",
                        res.rejected /\ CatchError(TRUE))
    /\ UNCHANGED <<savedRecipes, notif>>

\* saveRecipe after await this.isRecipeSaved(recipe): a saved recipe is
\* announced and false returned; otherwise storeFavorite is awaited.
SaveRecipe_IsAlreadySaved(res) ==
    /\ storeCall = [action |-> "saveRecipe", pc |-> "await"]
    /\ IF IsRecipeSavedValue(res)
       THEN /\ notif' = ShowMessage(notif, "Recipe already saved.")
            /\ storeCall' = IdleStoreCall
            /\ ev' = Completion("saveRecipe", FALSE, "Recipe already saved.",
                                FALSE)
       ELSE /\ notif' = notif
            /\ storeCall' = [storeCall EXCEPT !.pc = "storeFavorite"]
            /\ ev' = Completion("isRecipeSaved", FALSE, "",
                                res.rejected /\ CatchError(TRUE))
    /\ UNCHANGED savedRecipes

\* saveRecipe after await storeFavorite(recipe.id)
SaveRecipe_Return(res) ==
    /\ storeCall = [action |-> "saveRecipe", pc |-> "storeFavorite"]
    /\ storeCall' = IdleStoreCall
    /\ LET message == IF res.rejected THEN "Failed to save recipe."
                      ELSE IF res.success THEN "Recipe saved successfully!"
                      ELSE res.error
       IN /\ notif' = ShowMessage(notif, message)
          /\ ev' = Completion("saveRecipe", ~res.rejected /\ res.success,
                              message, res.rejected /\ CatchError(TRUE))
    /\ UNCHANGED savedRecipes

\* removeRecipe after await deleteFavorite(recipeId)
RemoveRecipe_Return(res) ==
    /\ storeCall = [action |-> "removeRecipe", pc |-> "await"]
    /\ storeCall' = IdleStoreCall
    /\ LET message == IF res.rejected THEN "Failed to remove recipe."
                      ELSE IF res.success THEN "Recipe removed from favorites."
                      ELSE res.error
       IN /\ notif' = ShowMessage(notif, message)
          /\ ev' = Completion("removeRecipe", ~res.rejected /\ res.success,
                              message, res.rejected /\ CatchError(TRUE))
    /\ UNCHANGED savedRecipes

\* fetchRecipes ends: an answer without success is thrown inside the try
\* block and caught there; finally, the action returns.
FetchRecipes_Finally(c, outcome) ==
    /\ FetchRecipes_Return(c, outcome)
    /\ ev' = Completion("fetchRecipes", outcome.success, error',
                        ~outcome.success /\ CatchError(TRUE))

ActionInit ==
    /\ storeCall = IdleStoreCall
    /\ savedRecipes = "[]"

\* The store actions, called by the views one at a time, and the fade-out of
\* the notification.
ActionStep ==
    \/ /\ NoActionInFlight
       /\ \/ /\ \E action \in AwaitingActions : Action_Await(action)
             /\ UNCHANGED <<logged_user, token, sessionStorage, currentRoute,
                            pending, loginCall, logoutCall, storeVars>>
          \/ LoginUser_Await /\ UNCHANGED <<storeVars, actionVars>>
          \/ LogoutUser_Await /\ UNCHANGED <<storeVars, actionVars>>
          \/ /\ \E query \in { "a" } : FetchRecipes_Call(query)
             /\ ev' = [NoEvent EXCEPT !.op = "called"]
             /\ UNCHANGED <<logged_user, token, sessionStorage, currentRoute,
                            pending, loginCall, logoutCall, notif, search,
                            debounceTimer, actionVars>>
    \/ /\ \E res \in ServiceResults :
             \/ SignupUser_Return(res)
             \/ LoadSavedRecipes_Return(res)
             \/ IsRecipeSaved_Return(res)
             \/ SaveRecipe_IsAlreadySaved(res)
             \/ SaveRecipe_Return(res)
             \/ RemoveRecipe_Return(res)
       /\ UNCHANGED <<logged_user, token, sessionStorage, currentRoute, pending,
                      loginCall, logoutCall, storeVars>>
    \/ /\ \/ \E success \in BOOLEAN : LoginUser_Return(success)
          \/ LoginUser_Catch
          \/ \E success \in BOOLEAN : LogoutUser_Return(success)
          \/ LogoutUser_Catch
          \/ FadeOut
       /\ UNCHANGED <<storeVars, actionVars>>
    \/ /\ \E c \in fetchCalls, outcome \in FetchOutcomes :
             FetchRecipes_Finally(c, outcome)
       /\ UNCHANGED <<logged_user, token, sessionStorage, currentRoute, pending,
                      loginCall, logoutCall, notif, search, debounceTimer,
                      actionVars>>

(***************************************************************************)
(* The client's services: one function per endpoint, each a call through   *)
(* the axios instance of config/api.ts                                     *)
(***************************************************************************)
\* login: await csrf(); await api.post("/api/auth/login", { email, password })
LoginService ==
    [name |-> "login", csrf |-> TRUE, method |-> "POST",
     url |-> "/api/auth/login"]

\* signup: await csrf(); await api.post("/api/auth/register", payload)
SignupService ==
    [name |-> "signup", csrf |-> TRUE, method |-> "POST",
     url |-> "/api/auth/register"]

\* logout: await csrf(); await api.post("/api/auth/logout")
LogoutService ==
    [name |-> "logout", csrf |-> TRUE, method |-> "POST",
     url |-> "/api/auth/logout"]

\* update: await api.post("/api/auth/update", payload)
UpdateService ==
    [name |-> "update", csrf |-> FALSE, method |-> "POST",
     url |-> "/api/auth/update"]

\* storeFavorite: await api.post("/api/favorites", { recipe_id: recipeId })
StoreFavoriteService ==
    [name |-> "storeFavorite", csrf |-> FALSE, method |-> "POST",
     url |-> "/api/favorites"]

\* deleteFavorite: await api.delete("/api/favorites", { data: { recipe_id } })
DeleteFavoriteService ==
    [name |-> "deleteFavorite", csrf |-> FALSE, method |-> "DELETE",
     url |-> "/api/favorites"]

\* fetchFavorites: await api.get("/api/favorites", { params })
FetchFavoritesService ==
    [name |-> "fetchFavorites", csrf |-> FALSE, method |-> "GET",
     url |-> "/api/favorites"]

Services ==
    { LoginService, SignupService, LogoutService, UpdateService,
      StoreFavoriteService, DeleteFavoriteService, FetchFavoritesService }

\* The answers of ProfileController::update to POST /api/auth/update: the
\* profile saved, the current password found wrong (answered with the default
\* status, 200, before anything is saved), the validation failed.
UpdateAnswers ==
    { [status |-> 200, success |-> "true",
       message |-> "Profile updated successfully", applied |-> TRUE],
      [status |-> 200, success |-> "undefined",
       message |-> "Current password is incorrect", applied |-> FALSE],
      [status |-> 422, success |-> "undefined",
       message |-> "The email has already been taken.", applied |-> FALSE] }

\* What the awaited request of a service can end with: an answer of the
\* endpoint, an error answer of the framework in front of it (no bearer token
\* accepted, a failure without a message in the body), no answer at all.
Answers(s) ==
    (IF s.name = "update" THEN UpdateAnswers
     ELSE { [status |-> 200, success |-> "true", message |-> "",
             applied |-> TRUE],
            [status |-> 422, success |-> "undefined",
             message |-> "The given data was invalid.", applied |-> FALSE] })
    \cup
    { [status |-> 401, success |-> "undefined", message |-> "Unauthenticated.",
       applied |-> FALSE],
      [status |-> 500, success |-> "undefined", message |-> "",
       applied |-> FALSE],
      [status |-> 0, success |-> "undefined", message |-> "",
       applied |-> FALSE] }

\* The promise of api.post / api.get / api.delete resolves for a status of
\* the 2xx range and rejects otherwise.
Resolves(answer) == answer.status >= 200 /\ answer.status < 300

\* catch (error): error.response?.data?.message, else error.message
ErrorMessage(answer) ==
    IF answer.status # 0 /\ answer.message # "" THEN answer.message
    ELSE IF answer.status = 0 THEN "Network Error"
    ELSE "Request failed with status code"

NoAnswer ==
    [status |-> -1, success |-> "undefined", message |-> "", applied |-> FALSE]

NoResult == [success |-> FALSE, error |-> "", returned |-> FALSE]

\* return { success: true, data: response.data } of the try block and
\* return { success: false, error: message } of the catch block
ServiceResult(answer) ==
    [success |-> Resolves(answer),
     error |-> IF Resolves(answer) THEN "" ELSE ErrorMessage(answer),
     returned |-> TRUE]

\* api.interceptors.request.use: the request carries the token of the storage
Request(method, url) ==
    [method |-> method, url |-> url, authorization |-> sessionStorage.token]

IdleService ==
    [pc |-> "idle", service |-> "none", csrf |-> "none", sent |-> <<>>,
     answer |-> NoAnswer, result |-> NoResult]

\* A store action calls a service.
Service_Call(s) ==
    /\ svc.pc = "idle"
    /\ svc' = [IdleService EXCEPT !.pc = IF s.csrf THEN "csrf" ELSE "request",
                                  !.service = s.name]

\* csrf(): the GET of the cookie; true when it was answered, false when the
\* request failed, and the service that awaits it goes on in both cases.
Csrf(answered) ==
    /\ svc.pc = "csrf"
    /\ svc' = [svc EXCEPT !.pc = "request",
                          !.csrf = IF answered THEN "true" ELSE "false",
                          !.sent = Append(@, Request("GET", "/sanctum/csrf-cookie"))]

\* The service sends its request.
Service_Request ==
    /\ svc.pc = "request"
    /\ \E s \in Services :
          /\ s.name = svc.service
          /\ svc' = [svc EXCEPT !.pc = "await",
                                !.sent = Append(@, Request(s.method, s.url))]

\* The awaited request ends and the service returns its result.
Service_Return(answer) ==
    /\ svc.pc = "await"
    /\ svc' = [svc EXCEPT !.pc = "idle", !.answer = answer,
                          !.result = ServiceResult(answer)]

ServiceInit == svc = IdleService

ServiceStep ==
    \/ \E s \in Services : Service_Call(s)
    \/ \E answered \in BOOLEAN : Csrf(answered)
    \/ Service_Request
    \/ \E s \in Services :
          /\ s.name = svc.service
          /\ \E answer \in Answers(s) : Service_Return(answer)

InitClient ==
    /\ FavInit /\ RecipeInit /\ recipes = {} /\ UserInit /\ StoreInit /\ AttachInit /\ ActionInit /\ ServiceInit
    /\ \E stored \in BOOLEAN, to \in Paths : ClientLoad(stored, to)

NextClient ==
    /\ ClientStep
    /\ UNCHANGED <<favVars, recipeVars, recipes, userVars, storeVars, attachVars, actionVars, serviceVars>>

InitUsers ==
    /\ FavInit /\ RecipeInit /\ recipes = {} /\ UserInit /\ ClientLoad(FALSE, "/")
    /\ StoreInit /\ AttachInit /\ ActionInit /\ ServiceInit

NextUsers ==
    /\ UserStep
    /\ UNCHANGED <<favVars, recipeVars, recipes, clientVars, storeVars, attachVars, actionVars, serviceVars>>

SpecUsers == InitUsers /\ [][NextUsers]_vars

NextAuth ==
    /\ AuthStep
    /\ UNCHANGED <<favVars, recipeVars, recipes, clientVars, storeVars, attachVars, actionVars, serviceVars>>

SpecAuth == InitUsers /\ [][NextAuth]_vars

SpecClient == InitClient /\ [][NextClient]_vars

\* A timer of setTimeout that is not cleared fires.
TimersFire ==
    \A t \in RouteMessages :
        WF_vars(FadeOut_Timer(t)
                /\ UNCHANGED <<favVars, recipeVars, recipes, userVars, storeVars,
                               attachVars, actionVars, serviceVars>>)

SpecClientFair == SpecClient /\ TimersFire

InitStore ==
    /\ FavInit /\ RecipeInit /\ recipes = {} /\ UserInit
    /\ ClientLoad(FALSE, "/") /\ StoreInit /\ AttachInit /\ ActionInit /\ ServiceInit

NextStore ==
    /\ StoreStep
    /\ UNCHANGED <<favVars, recipeVars, recipes, userVars, clientVars, attachVars, actionVars, serviceVars>>

SpecStore == InitStore /\ [][NextStore]_vars

NextAction ==
    /\ ActionStep
    /\ UNCHANGED <<favVars, recipeVars, recipes, userVars, attachVars, serviceVars>>

SpecAction == InitClient /\ [][NextAction]_vars

InitRecipe ==
    /\ FavInit /\ RecipeInit /\ recipes = {} /\ UserInit /\ ClientLoad(FALSE, "/")
    /\ StoreInit /\ AttachInit /\ ActionInit /\ ServiceInit

NextRecipe ==
    RecipeStep /\ UNCHANGED <<favVars, clientVars, userVars, storeVars, attachVars, actionVars, serviceVars>>

SpecRecipe == InitRecipe /\ [][NextRecipe]_vars

NextUpsert ==
    /\ UpsertStep
    /\ UNCHANGED <<favVars, clientVars, userVars, storeVars, attachVars,
                   actionVars, serviceVars>>

SpecUpsert == InitRecipe /\ [][NextUpsert]_vars

InitFav ==
    /\ FavInit /\ RecipeInit /\ recipes = SeedRecipes /\ UserInit
    /\ ClientLoad(FALSE, "/") /\ StoreInit /\ AttachInit /\ ActionInit /\ ServiceInit

NextFav ==
    FavStep /\ UNCHANGED <<recipeVars, clientVars, userVars, storeVars, attachVars, actionVars, serviceVars>>

SpecFav == InitFav /\ [][NextFav]_vars

NextFavList ==
    FavListStep /\ UNCHANGED <<recipeVars, clientVars, userVars, storeVars, attachVars, actionVars, serviceVars>>

SpecFavList == InitFav /\ [][NextFavList]_vars

NextAttach ==
    /\ AttachStep
    /\ UNCHANGED <<favVars, recipeVars, recipes, clientVars, userVars, storeVars,
                   actionVars, serviceVars>>

SpecAttach == InitRecipe /\ [][NextAttach]_vars

NextService ==
    /\ ServiceStep
    /\ UNCHANGED <<favVars, recipeVars, recipes, clientVars, userVars, storeVars,
                   attachVars, actionVars>>

SpecService == InitClient /\ [][NextService]_vars

(***************************************************************************)
(* Properties of the recipe store                                          *)
(***************************************************************************)
\* C11: once the responses of all fetchRecipes calls have arrived, the
\* recipes and the error of the store are those of the response to the call
\* made last, in whatever order the responses arrived.
C11_LatestSearchShown ==
    (fetchCalls = {} /\ issued > 0)
        => /\ storeRecipes = latest.recipes
           /\ error = latest.error

(***************************************************************************)
(* Properties of the accounts                                              *)
(***************************************************************************)
\* C10: after every register and profile-update request no two rows of the
\* users table have the same e-mail address, and a register request whose
\* e-mail address a row already has is answered as a conflict (409, neither a
\* success nor an internal error) and creates no row.
C10_DuplicateEmailConflict ==
    [][/\ \A u \in users', v \in users' : u.email = v.email => u = v
       /\ (/\ uresp'.op = "register"
           /\ \E u \in users : u.email = uresp'.email)
          => /\ uresp'.status = 409
             /\ users' = users
      ]_vars

(***************************************************************************)
(* Properties of the client                                                *)
(***************************************************************************)
\* The auth-only and the guest-only navigation targets.
AuthOnly == { "/profile", "/saved", "/search" }
GuestOnly == { "/", "/about" }

LoggedOut(user, tok, storage) ==
    /\ user = Null /\ tok = Null
    /\ storage.user = Null /\ storage.token = Null

C5_OneRowPerExternalId ==
    \A r \in recipes, t \in recipes :
        r.spoonacular_id = t.spoonacular_id => r = t

\* C5 witness: a handler that found no row for an item is about to insert it
\* after another request has inserted a row with the same spoonacular_id.
C5_Witness ==
    \E h \in RecipeHandlers :
        /\ rh[h].pc = "insert"
        /\ ~InsertThrows(Head(rh[h].todo))
        /\ RowsWithExternalId(Head(rh[h].todo).id) # {}

\* X occurs in the title, letters compared without regard to case.
ContainsCI(q, title) ==
    \E i \in 1..(Len(title) + 1) :
        /\ i + Len(q) - 1 <= Len(title)
        /\ \A k \in 1..Len(q) : Lower(title[i + k - 1]) = Lower(q[k])

\* C6: a request with query X whose provider call threw, answered non-2xx or
\* returned an empty list is answered, when the fallback query does not
\* throw, with success, source "database" and at most ten rows, the title of
\* each containing X without regard to case.
C6_FallbackFiltersByTitle ==
    [][\A h \in RecipeHandlers :
          (/\ rh[h].pc = "fallback" /\ rh'[h].pc = "idle"
           /\ rh[h].query # <<>>
           /\ rh[h].outcome \in {"throw", "non2xx", "empty"}
           /\ rresp'.source # "fallback threw")
          => /\ rresp'.status = "success"
             /\ rresp'.source = "database"
             /\ rresp'.count <= Limit
             /\ \A r \in rresp'.data : ContainsCI(rh[h].query, r.title)
      ]_vars

\* C7: whatever the provider call and the upsert did, a request whose
\* fallback query does not throw is answered with success and source "api" or
\* "database"; the provider's error is never the answer.
C7_ProviderFailureNotSurfaced ==
    (rresp.status # "none" /\ rresp.source # "fallback threw")
        => /\ rresp.status = "success"
           /\ rresp.source \in {"api", "database"}

\* C7 witness: a request whose upsert threw has been answered from the
\* database.
C7_Witness ==
    /\ rresp.status = "success" /\ rresp.source = "database"
    /\ rresp.outcome = "items"

\* C19: a request whose provider call returned a non-empty list is answered
\* with source "api", and the data of such an answer are rows of the recipes
\* table, one for each distinct external id of the list, count being the
\* number of those ids.
C19_ApiAnswerIsPersistedRows ==
    /\ [](rresp.outcome = "items" => rresp.source = "api")
    /\ [][\A h \in RecipeHandlers :
            (rh[h].pc = "reread" /\ rh'[h].pc = "idle")
              => /\ rresp'.source = "api"
                 /\ rresp'.data \subseteq recipes
                 /\ \A e \in rh[h].ids :
                       Cardinality({ r \in rresp'.data : r.spoonacular_id = e }) = 1
                 /\ rresp'.count = Cardinality(rh[h].ids)]_vars

\* C20: once the recipes table has a row for an external id, no step changes
\* the title or the preparation time of that row or adds another row for the
\* id, whatever the provider returns for the id later.
C20_FirstWriteWins ==
    [][\A r \in recipes : \A t \in recipes' :
          t.spoonacular_id = r.spoonacular_id => t = r]_vars

\* C20 witness: a reconciliation is at an item whose external id has a row
\* with another title and another preparation time.
C20_Witness ==
    \E h \in RecipeHandlers : \E r \in recipes :
        /\ rh[h].pc = "select"
        /\ r.spoonacular_id = Head(rh[h].todo).id
        /\ r.title # Head(rh[h].todo).title
        /\ r.ready_in_minutes # Head(rh[h].todo).readyInMinutes

OwnedBy(tbl, b) == { f \in tbl : f.user_id = b }

\* C2: a step of a request authenticated as user a leaves the rows of every
\* other user as they are, and the answers of a's check and list requests are
\* functions of a's own rows only (an empty list for a user without saves).
C2_CrossUserIsolation ==
    [][/\ favorites' # favorites
          => \E h \in FavHandlers :
                /\ fh'[h] # fh[h]
                /\ \A b \in UserIds \ {fh[h].user} :
                       OwnedBy(favorites', b) = OwnedBy(favorites, b)
       /\ (/\ resp'.op = "check" /\ resp'.status = 200
           /\ \E h \in FavHandlers :
                  Check_Exists(h, resp'.user, resp'.recipe_id))
          => (resp'.is_favorited <=>
                \E f \in OwnedBy(favorites, resp'.user) :
                    f.recipe_id = resp'.recipe_id)
       /\ (/\ resp'.op = "fetchFavorites"
           /\ \E h \in FavHandlers : FetchFavorites_Query(h, resp'.user))
          => resp'.data = { f.recipe_id : f \in OwnedBy(favorites, resp'.user) }
      ]_vars

\* C2 witness: a user without saves has been answered an empty list while
\* another user has favorites.
C2_Witness ==
    /\ resp.op = "fetchFavorites" /\ resp.data = {}
    /\ OwnedBy(favorites, resp.user) = {}
    /\ favorites # {}

\* C3: a check answered after a successful add (and before the next successful
\* remove) reports true; one answered after a successful remove (and before
\* the next successful add) reports false.
C3_CheckFollowsLastWrite ==
    (resp.op = "check" /\ resp.status = 200) =>
        /\ resp.seen = "add" => resp.is_favorited
        /\ resp.seen = "remove" => ~resp.is_favorited

\* C4: an add request handled after a successful add of the same
\* (user, recipe), with no successful remove in between, is answered 409 and
\* leaves the favorites table, hence the user's favorites count, unchanged.
C4_SecondAddConflicts ==
    [][/\ \A h \in FavHandlers :
            (fh[h].pc = "idle" /\ fh'[h].pc = "create")
            => lastWrite[fh'[h].user][fh'[h].recipe_id] # "add"
       /\ (/\ resp'.op = "store" /\ fh' = fh
           /\ lastWrite[resp'.user][resp'.recipe_id] = "add"
           /\ \E h \in FavHandlers :
                  Store_Check(h, resp'.user, resp'.recipe_id))
          => /\ resp'.status = 409
             /\ favorites' = favorites
             /\ Cardinality(OwnedBy(favorites', resp'.user))
                  = Cardinality(OwnedBy(favorites, resp'.user))
      ]_vars

\* C4 witness: a second add has been answered 409.
C4_Witness ==
    /\ resp.op = "store" /\ resp.status = 409 /\ resp.seen = "add"
    /\ FavoriteExists(resp.user, resp.recipe_id)

\* C12: a list request with a non-empty search term s is answered, before
\* pagination, with exactly the recipes the user has favorited whose title
\* contains s without regard to case.
C12_SearchFiltersByTitle ==
    [][(/\ fh' = fh /\ resp'.op = "fetchFavorites"
        /\ resp'.search # <<>>)
          => resp'.data =
               { r.id : r \in { x \in recipes :
                   /\ \E f \in OwnedBy(favorites, resp'.user) :
                          f.recipe_id = x.id
                   /\ ContainsCI(resp'.search, x.title) } }
      ]_vars

\* C13: with the sort-by-title toggle off, a recipe the user favorited later
\* comes earlier in the list than one the user favorited before it.
C13_MostRecentlyFavoritedFirst ==
    [][(/\ fh' = fh /\ resp'.op = "fetchFavorites"
        /\ resp'.sort_by_name \in { "absent", "false" })
          => \A i, j \in DOMAIN resp'.list :
                i < j =>
                  \A f, g \in OwnedBy(favorites, resp'.user) :
                      (f.recipe_id = resp'.list[i] /\ g.recipe_id = resp'.list[j])
                          => f.id > g.id
      ]_vars


(***************************************************************************)
(* Properties of login and logout                                          *)
(***************************************************************************)
\* C14: a logout deletes exactly the token presented with the request: after
\* it the table has no row for that token and every other row is still there,
\* and no later login brings a revoked token back, since a new token has an id
\* never issued before.
C14_LogoutRevokesPresentedToken ==
    /\ [][(uresp'.op = "logout" /\ uresp'.status = 200)
            => /\ \A x \in tokens' : x.id # uresp'.token
               /\ \A x \in tokens : x.id # uresp'.token => x \in tokens']_vars
    /\ [][\A x \in tokens' \ tokens :
              x.id = nextTokenId /\ nextTokenId' > nextTokenId]_vars
    /\ [](\A x \in tokens : x.id < nextTokenId)

\* A logout was answered while the same user holds another token.
C14_Witness ==
    /\ uresp.op = "logout" /\ uresp.status = 200
    /\ \E x \in tokens : x.user = uresp.user /\ x.id # uresp.token


(***************************************************************************)
(* Properties of the profile update                                        *)
(***************************************************************************)
\* The stored row of the user a handler works for.
StoredUser(id) == { u \in users : u.id = id }

\* C15: a profile update changes the stored password only when the current
\* password it was sent matches the stored one; and a request that carries a
\* current and a new password, the current one not matching, is answered
\* 'Current password is incorrect' at once: no handler goes on to save it, and
\* the answer leaves the users table as it was.
C15_WrongCurrentPasswordChangesNothing ==
    /\ [][(/\ uresp'.op = "update validated"
            /\ uresp'.password # "" /\ uresp'.new_password # "")
              => \A u \in StoredUser(uresp'.user) :
                    HashCheck(uresp'.password, u.password)]_vars
    /\ [][(uresp'.op = "update" /\ uresp'.status = 200 /\ ~uresp'.success)
            => users' = users]_vars
    /\ [][\A u \in users, v \in users' :
            (u.id = v.id /\ u.password # v.password)
              => \E h \in UserHandlers :
                   /\ uh[h].pc = "save" /\ uh[h].user = u.id
                   /\ uh'[h].pc = "idle" /\ uh[h].password # ""]_vars


(***************************************************************************)
(* Properties of the dish types and ingredients                            *)
(***************************************************************************)
\* C16: whatever reconciliations have run and however they interleaved, no
\* two rows of the dish_types table have the same name and no two rows of the
\* ingredients table have the same external id.
C16_SharedNotDuplicated ==
    /\ \A d, e \in dishTypes : d.name = e.name => d = e
    /\ \A i, j \in ingredients : i.spoonacular_id = j.spoonacular_id => i = j

StoreActions ==
    { "loginUser", "signupUser", "logoutUser", "fetchRecipes",
      "loadSavedRecipes", "isRecipeSaved", "saveRecipe", "removeRecipe" }

C18_FailureNotifies ==
    [][(ev'.op \in StoreActions \ {"isRecipeSaved"} /\ ~ev'.success)
          => notif' = ShowMessage(notif, ev'.message)]_vars


\* C22: within a service call, every POST and every DELETE sent is preceded
\* by a request for the CSRF cookie.
C22_CsrfBeforeStateChange ==
    \A i \in 1..Len(svc.sent) :
        svc.sent[i].method \in {"POST", "DELETE"}
            => \E j \in 1..(i - 1) : svc.sent[j].url = "/sanctum/csrf-cookie"


\* C30: the result update() returns has success = true only when the server
\* applied the update, and success = false with a message whenever it did
\* not.
C30_UpdateSuccessMeansApplied ==
    (svc.service = "update" /\ svc.result.returned)
        => /\ svc.result.success <=> svc.answer.applied
           /\ ~svc.result.success => svc.result.error # ""


\* C23: in every state loading is true exactly when a fetchRecipes call has
\* been started and has not completed yet, also when several calls overlap.
C23_LoadingWhileFetching ==
    loading <=> fetchCalls # {}


\* C24: at most one debounce timer is pending; a change of the search term
\* issues no fetch, leaves the timer of a term that is not blank as the only
\* one pending and none for an empty or blank term; and the timer that fires
\* issues exactly one fetch, for the term the search field holds.
C24_DebounceCoalesces ==
    /\ [](Cardinality(debounceTimer.pending) <= 1)
    /\ [][search' # search
            => /\ issued' = issued /\ fetchCalls' = fetchCalls
               /\ debounceTimer'.pending =
                    IF NotBlank(search') THEN {search'} ELSE {}]_vars
    /\ [][(search' = search /\ debounceTimer'.pending # debounceTimer.pending)
            => /\ debounceTimer'.pending = {}
               /\ issued' = issued + 1
               /\ fetchCalls' =
                    fetchCalls \cup {[call |-> issued + 1, query |-> search]}]_vars

\* C24 witness: the timer of a term was cancelled by the change to a blank
\* term: a timer was started, none is pending and no fetch was issued.
C24_Witness ==
    /\ debounceTimer.id # "undefined"
    /\ debounceTimer.pending = {}
    /\ ~NotBlank(search)
    /\ issued = 0


\* C25: at most one fade-out timer is pending, the timer pending is the one
\* of the message displayed, and a message stays displayed until a timer
\* fires, which is then its own, clearMessage is called or a showMessage
\* replaces it.
C25_OneFadeOutTimer ==
    /\ [](/\ Cardinality(notif.pending) <= 1
          /\ notif.pending \subseteq {notif.message})
    /\ [][(notif.message # "" /\ notif' # notif)
            => \/ ev'.op = "timeout" /\ notif.pending = {notif.message}
               \/ ev'.op = "clearMessage"
               \/ notif' = ShowMessage(notif, notif'.message)]_vars

\* C25 witness: the guard is about to call showMessage while the timer of
\* another message is pending.
C25_Witness ==
    /\ pending.stage = "guard"
    /\ notif.pending # {}
    /\ notif.message # RouteName(pending.to)

\* C26: a message displayed while no navigation is about to show another one
\* is eventually cleared or followed by a navigation that shows another one;
\* and after clearMessage the message is empty and no timer is pending.
C26_EventuallyCleared ==
    /\ (notif.message # "" /\ pending.stage # "guard")
          ~> (notif.message = "" \/ pending.stage = "guard")
    /\ [][ev'.op = "clearMessage"
            => notif'.message = "" /\ notif'.pending = {}]_vars

\* C26 witness: a message is displayed with its timer pending and no
\* navigation is about to show another one.
C26_Witness ==
    /\ notif.message # ""
    /\ notif.pending = {notif.message}
    /\ pending.stage # "guard"


\* C27: while a user is signed in, a list of favorites that savedRecipes
\* holds is the list of that user.
C27_SavedRecipesOfCurrentUser ==
    (logged_user # Null /\ savedRecipes \in { FavoritesOf(a) : a \in Accounts })
        => savedRecipes = FavoritesOf(logged_user)


C29_RedirectsAtMostOnce ==
    [][ev'.op = "beforeEach"
         => /\ pending'.stage = "guard"
                 => /\ ~(RequiresAuth(pending'.to) /\ logged_user = Null)
                    /\ ~(RequiresGuest(pending'.to) /\ logged_user # Null)
            /\ pending.redirectedFrom # "none" => pending'.stage = "resolve"
      ]_vars

\* C29 witness: a navigation of a signed-in user that was redirected has
\* passed the guard.
C29_Witness ==
    /\ ev.op = "beforeEach"
    /\ pending.stage = "resolve"
    /\ pending.redirectedFrom # "none"
    /\ logged_user # Null

====
